---- MODULE Spec2Model ----
(***************************************************************************)
(* Model of the user authentication service (0x03-user_authentication_     *)
(* service/auth.py over the DB store) and of the log redaction function    *)
(* (0x00-personal_data/filtered_logger.py).                                *)
(*                                                                         *)
(* Python values: None is the string "None" (no generated uuid and no      *)
(* argument of the model equals it), the empty str is "", a User object is *)
(* named by its id (0 for None).                                           *)
(***************************************************************************)
EXTENDS Integers, Sequences, FiniteSets, TLC

VARIABLES
    users,      \* the users table of the store: users[i] is the row with id i
    uuids,      \* how many uuid4() values have been generated so far
    ret,        \* the last Auth call: its arguments, result, exception, store traffic
    message,    \* filter_datum: the message argument
    fields,     \* filter_datum: the fields argument
    separator,  \* filter_datum: the separator argument
    redaction,  \* filter_datum: the redaction argument
    output,     \* filter_datum: the returned string (NotCalled before the call)
    threads,    \* concurrent callers: threads[t] is the Auth call thread t is in
    writer      \* the thread that made the latest store write (0: none yet)

\* A Python str of the redactor is the sequence of its characters.

authVars == <<users, uuids, ret>>
redactVars == <<message, fields, separator, redaction, output>>
concVars == <<threads, writer>>
vars == <<users, uuids, ret, message, fields, separator, redaction, output,
          threads, writer>>

----------------------------------------------------------------------------
(* Bounds *)

MaxUsers == 2       \* rows the store may hold
MaxUuids == 3       \* uuid4() values a behaviour may draw

None == "None"
Emails == {"a@x.com", "b@x.com"}
Passwords == {"p", "px"}
Salts == {"s1", "s2"}     \* values bcrypt.gensalt() may return
\* faulty variant: the generator returns the same value again
UuidOf_repeats(n) == "u1"
UuidOf(n) == <<"u1", "u2", "u3", "u4", "u5", "u6">>[n]
Uuids == {UuidOf(n) : n \in 1..(MaxUuids + 1)}
\* tokens a caller may present: null, the empty string, and uuid-shaped strings,
\* one of which is never generated within the bound
TokenArgs == {None, ""} \cup Uuids
UserIds == 1..(MaxUsers + 1)

----------------------------------------------------------------------------
(* bcrypt *)

\* bcrypt.hashpw(password.encode('utf-8'), salt): the digest carries the salt
hashpw(password, salt) == <<salt, password>>

\* bcrypt.checkpw(password, hashed): rehash with the digest's salt and compare
checkpw(password, hashed) == hashpw(password, hashed[1]) = hashed

\* _hash_password: the digests a call may return, one per salt
_hash_password(password) == {hashpw(password, s) : s \in Salts}

----------------------------------------------------------------------------
(* The store (class DB) *)

\* ids of the rows whose column equals value (exact-match equality filter)
Matching(us, column, value) ==
    {i \in 1..Len(us) : us[i][column] = value}

\* DB.find_user_by(column=value): the rows it may return; the empty set is
\* NoResultFound
find_user_by(us, column, value) == Matching(us, column, value)

\* DB.add_user(email, hashed_password): a new row with the next id
add_user(us, email, hashed) ==
    Append(us, [id |-> Len(us) + 1, email |-> email, hashed_password |-> hashed,
                session_id |-> None, reset_token |-> None])

\* DB.update_user(user_id, **changes) on an existing id
update_user(us, user_id, changes) ==
    [us EXCEPT ![user_id] =
        [c \in DOMAIN us[user_id] |->
            IF c \in DOMAIN changes THEN changes[c] ELSE us[user_id][c]]]

\* the exception DB.update_user raises for user_id ("None": it succeeds)
update_user_exc(us, user_id) ==
    IF user_id \in 1..Len(us) THEN None ELSE "NoResultFound"

----------------------------------------------------------------------------
(* Call records *)

\* ret: the arguments of the last Auth call (email, password, token, user_id),
\* what it returned (rtoken, ruser, rbool) or raised (exc), the
\* find_user_by calls (reads) and the successful writes (writes) it made,
\* the row a write went to (row), and how it follows the call before it (chain)
NoCall == [op |-> "none", email |-> None, password |-> None, token |-> None,
           user_id |-> 0, rtoken |-> None, ruser |-> 0, rbool |-> FALSE,
           exc |-> None, reads |-> 0, writes |-> 0, row |-> 0, chain |-> "none"]

\* how a call follows the one recorded in ret:
\*   "registered": register_user of the email the call before registered
\*   "created":    destroy_session of the user the call before opened a session for
\*   "issued":     update_password with the token the call before issued
\*   "consumed":   update_password with the token the call before consumed,
\*                 itself "issued"
\*   "destroyed":  destroy_session of the user whose session the call before
\*                 destroyed
\*   "recreated":  create_session of the email the call before opened a
\*                 session for
Chain(op, email, token, user_id) ==
    IF /\ op = "register_user" /\ ret.op = "register_user"
       /\ ret.exc = None /\ ret.email = email
    THEN "registered"
    ELSE IF /\ op = "destroy_session" /\ ret.op = "create_session"
            /\ ret.rtoken # None /\ ret.row = user_id
    THEN "created"
    ELSE IF /\ op = "update_password" /\ ret.op = "get_reset_password_token"
            /\ ret.exc = None /\ ret.rtoken = token
    THEN "issued"
    ELSE IF /\ op = "update_password" /\ ret.op = "update_password"
            /\ ret.exc = None /\ ret.chain = "issued" /\ ret.token = token
    THEN "consumed"
    ELSE IF /\ op = "destroy_session" /\ ret.op = "destroy_session"
            /\ ret.writes = 1 /\ ret.user_id = user_id
    THEN "destroyed"
    ELSE IF /\ op = "create_session" /\ ret.op = "create_session"
            /\ ret.rtoken # None /\ ret.email = email
    THEN "recreated"
    ELSE "none"

Call(op, email, password, token, user_id) ==
    [NoCall EXCEPT !.op = op, !.email = email, !.password = password,
                   !.token = token, !.user_id = user_id,
                   !.chain = Chain(op, email, token, user_id)]

\* one Auth call ends: the table, the uuid source and the call record
Finish(us, n, r) ==
    /\ users' = us
    /\ uuids' = n
    /\ ret' = r
    /\ UNCHANGED <<redactVars, concVars>>

----------------------------------------------------------------------------
(* class Auth *)

\* faulty variant: the lookup result is ignored and the user is added again
register_user_exists_never(found) == FALSE

\* register_user: find_user_by(email=email) returned a row, so the call raises
register_user_exists(found) == found # {}

register_user(email, password) ==
    LET c == Call("register_user", email, password, None, 0)
        found == find_user_by(users, "email", email)
    IN  IF register_user_exists(found)
        THEN Finish(users, uuids, [c EXCEPT !.exc = "ValueError", !.reads = 1])
        ELSE /\ Len(users) < MaxUsers
             /\ \E hashed \in _hash_password(password) :
                    Finish(add_user(users, email, hashed), uuids,
                           [c EXCEPT !.ruser = Len(users) + 1, !.reads = 1,
                                     !.writes = 1, !.row = Len(users) + 1])

\* faulty variant: a found user logs in without the password being checked
valid_login_returns_unchecked(us, email, password) ==
    IF find_user_by(us, "email", email) = {} THEN {FALSE} ELSE {TRUE}

\* valid_login: the values a call may return on the table us
valid_login_returns(us, email, password) ==
    LET found == find_user_by(us, "email", email)
    IN  IF found = {} THEN {FALSE}
        ELSE {checkpw(password, us[u].hashed_password) : u \in found}

valid_login(email, password) ==
    LET c == Call("valid_login", email, password, None, 0)
    IN  \E r \in valid_login_returns(users, email, password) :
            Finish(users, uuids, [c EXCEPT !.rbool = r, !.reads = 1])

\* faulty variant: NoResultFound is not caught
create_session_missing_raises(c) == [c EXCEPT !.exc = "NoResultFound", !.reads = 1]

\* create_session when find_user_by raised NoResultFound: return None
create_session_missing(c) == [c EXCEPT !.rtoken = None, !.reads = 1]

\* faulty variant: the token is written to the reset_token column
create_session_changes_wrong_column(session_id) == [reset_token |-> session_id]

\* the keyword arguments of the update_user call of create_session
create_session_changes(session_id) == [session_id |-> session_id]

create_session(email) ==
    LET c == Call("create_session", email, None, None, 0)
        found == find_user_by(users, "email", email)
    IN  IF found = {}
        THEN Finish(users, uuids, create_session_missing(c))
        ELSE /\ uuids < MaxUuids
             /\ \E u \in found :
                    LET session_id == UuidOf(uuids + 1)
                    IN  Finish(update_user(users, u, create_session_changes(session_id)),
                               uuids + 1,
                               [c EXCEPT !.rtoken = session_id, !.reads = 1,
                                         !.writes = 1, !.row = u])

\* faulty variant: every falsy session_id is rejected (if not session_id)
session_id_rejected_falsy(session_id) == session_id \in {None, ""}

\* the guard of get_user_from_session_id that returns before the store is read
session_id_rejected(session_id) == session_id = None

\* get_user_from_session_id: the users (0: None) a call may return on us
get_user_from_session_id_returns(us, session_id) ==
    LET found == find_user_by(us, "session_id", session_id)
    IN  IF session_id_rejected(session_id) THEN {0}
        ELSE IF found = {} THEN {0}
        ELSE found

get_user_from_session_id(session_id) ==
    LET c == Call("get_user_from_session_id", None, None, session_id, 0)
    IN  \E u \in get_user_from_session_id_returns(users, session_id) :
            Finish(users, uuids,
                   [c EXCEPT !.ruser = u,
                             !.reads = IF session_id_rejected(session_id) THEN 0 ELSE 1])

\* the except clause of destroy_session: the exceptions it swallows
destroy_session_catches(exc) == exc = "ValueError"

\* faulty variant: the session is set to the empty string, not to None
destroy_session_changes_empty == [session_id |-> ""]

\* faulty variant: the wrong column is cleared
destroy_session_changes_wrong_column == [reset_token |-> None]

\* the keyword arguments of the update_user call of destroy_session
destroy_session_changes == [session_id |-> None]

destroy_session(user_id) ==
    LET c == Call("destroy_session", None, None, None, user_id)
        exc == update_user_exc(users, user_id)
    IN  IF exc = None
        THEN Finish(update_user(users, user_id, destroy_session_changes), uuids,
                    [c EXCEPT !.writes = 1, !.row = user_id])
        ELSE IF destroy_session_catches(exc)
        THEN Finish(users, uuids, c)
        ELSE Finish(users, uuids, [c EXCEPT !.exc = exc])

\* faulty variant: None is returned instead of raising
reset_token_missing_returns(c) == [c EXCEPT !.rtoken = None, !.reads = 1]

\* get_reset_password_token when find_user_by raised NoResultFound: raise ValueError
reset_token_missing(c) == [c EXCEPT !.exc = "ValueError", !.reads = 1]

\* faulty variant: the token is written to the session_id column
reset_token_changes_wrong_column(reset_token) == [session_id |-> reset_token]

\* the keyword arguments of the update_user call of get_reset_password_token
reset_token_changes(reset_token) == [reset_token |-> reset_token]

get_reset_password_token(email) ==
    LET c == Call("get_reset_password_token", email, None, None, 0)
        found == find_user_by(users, "email", email)
    IN  IF found = {}
        THEN Finish(users, uuids, reset_token_missing(c))
        ELSE /\ uuids < MaxUuids
             /\ \E u \in found :
                    LET reset_token == UuidOf(uuids + 1)
                    IN  Finish(update_user(users, u, reset_token_changes(reset_token)),
                               uuids + 1,
                               [c EXCEPT !.rtoken = reset_token, !.reads = 1,
                                         !.writes = 1, !.row = u])

\* faulty variant: the reset token is not cleared
update_password_changes_keeps_token(hashed) == [hashed_password |-> hashed]

\* faulty variant: a password reset also ends the session
update_password_changes_ends_session(hashed) ==
    [hashed_password |-> hashed, reset_token |-> None, session_id |-> None]

\* the keyword arguments of the update_user call of update_password
update_password_changes(hashed) == [hashed_password |-> hashed, reset_token |-> None]

update_password(reset_token, password) ==
    LET c == Call("update_password", None, password, reset_token, 0)
        found == find_user_by(users, "reset_token", reset_token)
    IN  IF found = {}
        THEN Finish(users, uuids, [c EXCEPT !.exc = "ValueError", !.reads = 1])
        ELSE \E u \in found, hashed \in _hash_password(password) :
                Finish(update_user(users, u, update_password_changes(hashed)), uuids,
                       [c EXCEPT !.reads = 1, !.writes = 1, !.row = u])

----------------------------------------------------------------------------
(* filtered_logger.py *)

NotCalled == <<"<not called>">>

\* '|'.join(x): the alternatives of the group, in order; joining no field
\* leaves the one empty alternative
Alternatives(x) == IF x = <<>> THEN << <<>> >> ELSE x

\* the word w stands in msg at position i
StandsAt(msg, i, w) ==
    /\ i + Len(w) - 1 <= Len(msg)
    /\ SubSeq(msg, i, i + Len(w) - 1) = w

\* (?P<field>f1|f2|...)= at position i: the first alternative that stands
\* there followed by '=', 0 when none does
FieldAt(msg, i, alts) ==
    LET hits == {k \in 1..Len(alts) :
                    /\ StandsAt(msg, i, alts[k])
                    /\ i + Len(alts[k]) <= Len(msg)
                    /\ msg[i + Len(alts[k])] = "="}
    IN  IF hits = {} THEN 0 ELSE CHOOSE k \in hits : \A h \in hits : k <= h

\* [^y]: a character that is none of the characters of y
NotSeparator(ch, y) == \A k \in 1..Len(y) : y[k] # ch

\* [^y]* from position j, greedy: the position after the run
RECURSIVE RunEnd(_, _, _)
RunEnd(msg, j, y) ==
    IF j <= Len(msg) /\ NotSeparator(msg[j], y) THEN RunEnd(msg, j + 1, y) ELSE j

\* patterns['replace']: \g<field>=redaction
Replacement(field, x) == field \o <<"=">> \o x

\* re.sub(extract(fields, separator), replace(redaction), message) from
\* position i on: leftmost non-overlapping matches, left to right
RECURSIVE Sub(_, _, _, _, _)
Sub(alts, x, msg, y, i) ==
    IF i > Len(msg) THEN <<>>
    ELSE LET k == FieldAt(msg, i, alts)
         IN  IF k = 0
             THEN <<msg[i]>> \o Sub(alts, x, msg, y, i + 1)
             ELSE Replacement(alts[k], x)
                    \o Sub(alts, x, msg, y, RunEnd(msg, i + Len(alts[k]) + 1, y))

filter_datum(flds, redn, msg, sep) == Sub(Alternatives(flds), redn, msg, sep, 1)

----------------------------------------------------------------------------
(* The redactor's inputs *)

MaxTokens == 2      \* key=value tokens in a message

Keys == {<<"i", "d">>, <<"u", "i", "d">>, <<"I", "D">>, <<"p", "w">>}
Values == {<<>>, <<"1">>, <<"7", "7">>}
FieldLists == {<<>>, << <<"i", "d">> >>, << <<"p", "w">> >>,
               << <<"i", "d">>, <<"p", "w">> >>, << <<"p", "w">>, <<"i", "d">> >>}
Separators == {<<";">>, <<",">>}
Redactions == {<<"*", "*", "*">>, <<"#">>}

Token(key, value) == key \o <<"=">> \o value
Tokens == {Token(k, v) : k \in Keys, v \in Values}

RECURSIVE Join(_, _)
Join(toks, sep) ==
    IF Len(toks) = 0 THEN <<>>
    ELSE IF Len(toks) = 1 THEN toks[1]
    ELSE toks[1] \o sep \o Join(Tail(toks), sep)

TokenLists == UNION {[1..n -> Tokens] : n \in 1..MaxTokens}

\* "name=Bob;password=hunter2;email=a@b.com;city=NYC"
ExampleTokens ==
    << Token(<<"n", "a", "m", "e">>, <<"B", "o", "b">>),
       Token(<<"p", "a", "s", "s", "w", "o", "r", "d">>,
             <<"h", "u", "n", "t", "e", "r", "2">>),
       Token(<<"e", "m", "a", "i", "l">>, <<"a", "@", "b", ".", "c", "o", "m">>),
       Token(<<"c", "i", "t", "y">>, <<"N", "Y", "C">>) >>
ExampleFields == << <<"p", "a", "s", "s", "w", "o", "r", "d">>, <<"e", "m", "a", "i", "l">> >>
ExampleOutput ==
    Join(<< Token(<<"n", "a", "m", "e">>, <<"B", "o", "b">>),
            Token(<<"p", "a", "s", "s", "w", "o", "r", "d">>, <<"*", "*", "*">>),
            Token(<<"e", "m", "a", "i", "l">>, <<"*", "*", "*">>),
            Token(<<"c", "i", "t", "y">>, <<"N", "Y", "C">>) >>, <<";">>)

RedactIdle ==
    /\ message = <<>>
    /\ fields = <<>>
    /\ separator = <<";">>
    /\ redaction = <<>>
    /\ output = NotCalled

\* a thread's call: its arguments, where it stands (pc: "idle" before its first
\* call, "write" between the store read and the store write, "done" after the
\* call returned or raised), the row the read returned (user), the uuid drawn
\* (uuid), what the call returned (rtoken) or raised (exc), and whether another
\* call stood between its read and its write at the same time (overlap)
Threads == {1, 2}
NoThreadCall == [op |-> "none", email |-> None, password |-> None, token |-> None,
                 pc |-> "idle", user |-> 0, uuid |-> None, rtoken |-> None,
                 exc |-> None, overlap |-> FALSE]

ConcIdle ==
    /\ threads = [t \in Threads |-> NoThreadCall]
    /\ writer = 0

AuthIdle ==
    /\ users = <<>>
    /\ uuids = 0
    /\ ret = NoCall

InitRedact ==
    /\ AuthIdle
    /\ ConcIdle
    /\ separator \in Separators
    /\ redaction \in Redactions
    /\ fields \in FieldLists \cup {ExampleFields}
    /\ \E toks \in TokenLists \cup {ExampleTokens} : message = Join(toks, separator)
    /\ output = NotCalled

Redact ==
    /\ output = NotCalled
    /\ output' = filter_datum(fields, redaction, message, separator)
    /\ UNCHANGED <<message, fields, separator, redaction>>
    /\ UNCHANGED <<authVars, concVars>>

NextRedact == Redact

SpecRedact == InitRedact /\ [][NextRedact]_vars

----------------------------------------------------------------------------
(* The service: any sequence of Auth calls on an empty store *)

Init ==
    /\ AuthIdle
    /\ RedactIdle
    /\ ConcIdle

Next ==
    \/ \E email \in Emails, password \in Passwords : register_user(email, password)
    \/ \E email \in Emails, password \in Passwords : valid_login(email, password)
    \/ \E email \in Emails : create_session(email)
    \/ \E session_id \in TokenArgs : get_user_from_session_id(session_id)
    \/ \E user_id \in UserIds : destroy_session(user_id)
    \/ \E email \in Emails : get_reset_password_token(email)
    \/ \E reset_token \in TokenArgs, password \in Passwords :
            update_password(reset_token, password)

Spec == Init /\ [][Next]_vars

----------------------------------------------------------------------------
(* Concurrent callers: each Auth call is its store read, then its store    *)
(* write; the store serializes the single reads and writes, and the calls  *)
(* of the two threads interleave between them                              *)

\* the concurrent callers' arguments: one email, one password, and the
\* tokens that Auth has handed out
ConcEmails == {"a@x.com"}
ConcPasswords == {"p"}
HandedOut == {UuidOf(n) : n \in 1..uuids}

\* thread t may begin a call
Free(t) == threads[t].pc \in {"idle", "done"}

\* the threads other than t that stand between their read and their write
Pending(t) == {o \in Threads \ {t} : threads[o].pc = "write"}

ThreadCall(op, email, password, token) ==
    [NoThreadCall EXCEPT !.op = op, !.email = email, !.password = password,
                         !.token = token]

\* the call c of thread t returned or raised after its read
Returned(t, c) ==
    /\ threads' = [threads EXCEPT ![t] = [c EXCEPT !.pc = "done"]]
    /\ UNCHANGED <<users, uuids, ret, writer, redactVars>>

\* the call c of thread t goes on to its write, n uuids drawn so far
Proceeds(t, c, n) ==
    /\ threads' = [o \in Threads |->
                    IF o = t
                    THEN [c EXCEPT !.pc = "write", !.overlap = Pending(t) # {}]
                    ELSE IF o \in Pending(t)
                    THEN [threads[o] EXCEPT !.overlap = TRUE]
                    ELSE threads[o]]
    /\ uuids' = n
    /\ UNCHANGED <<users, ret, writer, redactVars>>

\* thread t makes the write of its call: the table becomes us, the call
\* returns rtoken
Written(t, us, rtoken) ==
    /\ users' = us
    /\ writer' = t
    /\ threads' = [threads EXCEPT ![t].pc = "done", ![t].rtoken = rtoken]
    /\ UNCHANGED <<uuids, ret, redactVars>>

\* register_user up to the return of find_user_by
register_user_read(t, email, password) ==
    LET c == ThreadCall("register_user", email, password, None)
        found == find_user_by(users, "email", email)
    IN  /\ Free(t)
        /\ IF register_user_exists(found)
           THEN Returned(t, [c EXCEPT !.exc = "ValueError"])
           ELSE /\ Len(users) + Cardinality({o \in Pending(t) :
                                    threads[o].op = "register_user"}) < MaxUsers
                /\ Proceeds(t, c, uuids)

\* register_user from the hashing on: add_user
register_user_write(t) ==
    /\ threads[t].pc = "write"
    /\ threads[t].op = "register_user"
    /\ \E hashed \in _hash_password(threads[t].password) :
            Written(t, add_user(users, threads[t].email, hashed), None)

\* create_session up to the uuid
create_session_read(t, email) ==
    LET c == ThreadCall("create_session", email, None, None)
        found == find_user_by(users, "email", email)
    IN  /\ Free(t)
        /\ IF found = {}
           THEN Returned(t, c)
           ELSE /\ uuids < MaxUuids
                /\ \E u \in found :
                    Proceeds(t, [c EXCEPT !.user = u, !.uuid = UuidOf(uuids + 1)],
                             uuids + 1)

\* create_session: update_user and return
create_session_write(t) ==
    /\ threads[t].pc = "write"
    /\ threads[t].op = "create_session"
    /\ Written(t, update_user(users, threads[t].user,
                              create_session_changes(threads[t].uuid)),
               threads[t].uuid)

\* get_reset_password_token up to the uuid
reset_token_read(t, email) ==
    LET c == ThreadCall("get_reset_password_token", email, None, None)
        found == find_user_by(users, "email", email)
    IN  /\ Free(t)
        /\ IF found = {}
           THEN Returned(t, [c EXCEPT !.exc = "ValueError"])
           ELSE /\ uuids < MaxUuids
                /\ \E u \in found :
                    Proceeds(t, [c EXCEPT !.user = u, !.uuid = UuidOf(uuids + 1)],
                             uuids + 1)

\* get_reset_password_token: update_user and return
reset_token_write(t) ==
    /\ threads[t].pc = "write"
    /\ threads[t].op = "get_reset_password_token"
    /\ Written(t, update_user(users, threads[t].user,
                              reset_token_changes(threads[t].uuid)),
               threads[t].uuid)

\* update_password up to the return of find_user_by
update_password_read(t, reset_token, password) ==
    LET c == ThreadCall("update_password", None, password, reset_token)
        found == find_user_by(users, "reset_token", reset_token)
    IN  /\ Free(t)
        /\ IF found = {}
           THEN Returned(t, [c EXCEPT !.exc = "ValueError"])
           ELSE \E u \in found : Proceeds(t, [c EXCEPT !.user = u], uuids)

\* update_password from the hashing on: update_user
update_password_write(t) ==
    /\ threads[t].pc = "write"
    /\ threads[t].op = "update_password"
    /\ \E hashed \in _hash_password(threads[t].password) :
            Written(t, update_user(users, threads[t].user,
                                   update_password_changes(hashed)), None)

InitConc ==
    /\ AuthIdle
    /\ RedactIdle
    /\ ConcIdle

NextConc ==
    \E t \in Threads :
        \/ \E email \in ConcEmails, password \in ConcPasswords :
                register_user_read(t, email, password)
        \/ register_user_write(t)
        \/ \E email \in ConcEmails : create_session_read(t, email)
        \/ create_session_write(t)
        \/ \E email \in ConcEmails : reset_token_read(t, email)
        \/ reset_token_write(t)
        \/ \E reset_token \in HandedOut, password \in ConcPasswords :
                update_password_read(t, reset_token, password)
        \/ update_password_write(t)

SpecConc == InitConc /\ [][NextConc]_vars

----------------------------------------------------------------------------
(* Claims: session lifecycle *)

\* the rows registered under email
RowsOf(us, email) == Matching(us, "email", email)

\* the step is a call of op (ret' records it)
Calls(op) == ret'.op = op

\* C1: after create_session(e) returns token t, resolve_session(t) returns the
\* one record registered under e; and when destroy_session(that record's id)
\* follows, resolve_session(t) returns absent.
C1_SessionRoundTrip ==
    /\ [](ret.op = "create_session" /\ ret.rtoken # None
            => /\ Cardinality(RowsOf(users, ret.email)) = 1
               /\ get_user_from_session_id_returns(users, ret.rtoken)
                    = RowsOf(users, ret.email))
    /\ [][(/\ ret.op = "create_session" /\ ret.rtoken # None
           /\ Calls("destroy_session")
           /\ ret'.user_id \in RowsOf(users, ret.email))
            => /\ ret'.exc = None
               /\ get_user_from_session_id_returns(users', ret.rtoken) = {0}]_vars

\* a destroy_session of the user has just followed that user's create_session
C1_Witness ==
    /\ ret.op = "destroy_session"
    /\ ret.chain = "created"
    /\ ret.writes = 1
    /\ users[ret.user_id].session_id = None

----------------------------------------------------------------------------
(* Claims: password reset *)

\* C2: when issue_reset_token(e) returned t1 and update_password(t1, newpw)
\* follows, it succeeds, the record's reset_token is null and
\* validate_login(e, newpw) is true; when update_password(t1, anything) follows
\* that, it fails with InvalidToken (ValueError) and validate_login(e, newpw)
\* is still true.
C2_ResetTokenSingleUse ==
    /\ [][(/\ ret.op = "get_reset_password_token" /\ ret.exc = None
           /\ Calls("update_password") /\ ret'.token = ret.rtoken)
            => /\ ret'.exc = None
               /\ ret'.row \in RowsOf(users, ret.email)
               /\ \A u \in RowsOf(users', ret.email) : users'[u].reset_token = None
               /\ valid_login_returns(users', ret.email, ret'.password) = {TRUE}]_vars
    /\ [][(/\ ret.op = "update_password" /\ ret.exc = None /\ ret.chain = "issued"
           /\ Calls("update_password") /\ ret'.token = ret.token)
            => /\ ret'.exc = "ValueError"
               /\ users' = users
               /\ valid_login_returns(users', users[ret.row].email, ret.password)
                    = {TRUE}]_vars

\* the issued token has been consumed and then presented again
C2_Witness ==
    /\ ret.op = "update_password"
    /\ ret.chain = "consumed"
    /\ ret.token \in Uuids
    /\ ret.exc = "ValueError"

----------------------------------------------------------------------------
(* Claims: registration and login *)

\* C3: when register(e, p) succeeded (e was not registered) and register(e, p2)
\* follows, the second call fails with AlreadyExists (ValueError) and writes
\* nothing to the store, and afterwards the stored hash for e validates
\* against p and, for p2 different from p, not against p2.
C3_DuplicateRegisterRejected ==
    [][(/\ ret.op = "register_user" /\ ret.exc = None
        /\ Calls("register_user") /\ ret'.email = ret.email)
        => /\ ret'.exc = "ValueError"
           /\ ret'.writes = 0
           /\ users' = users
           /\ valid_login_returns(users', ret.email, ret.password) = {TRUE}
           /\ (ret'.password # ret.password
                => valid_login_returns(users', ret.email, ret'.password) = {FALSE})]_vars

\* a second register of the same email, with another password, was refused
C3_Witness ==
    /\ ret.op = "register_user"
    /\ ret.chain = "registered"
    /\ ret.exc = "ValueError"
    /\ \E u \in RowsOf(users, ret.email) : users[u].hashed_password[2] # ret.password

\* C4: validate_login(e, pw) never fails; it returns false when no record has
\* email e and otherwise the result of verify(stored hash, pw); and for every
\* record registered as (e, p), validate_login(e, p) is true and
\* validate_login(e, p + "x") is false.
C4_ValidLogin ==
    /\ (ret.op = "valid_login"
        => /\ ret.exc = None
           /\ (RowsOf(users, ret.email) = {} => ret.rbool = FALSE)
           /\ \A u \in RowsOf(users, ret.email) :
                ret.rbool = checkpw(ret.password, users[u].hashed_password))
    /\ \A u \in 1..Len(users) : \A p \in Passwords :
        users[u].hashed_password \in _hash_password(p)
        => /\ valid_login_returns(users, users[u].email, p) = {TRUE}
           /\ valid_login_returns(users, users[u].email, p \o "x") = {FALSE}

\* a login of a registered email with a wrong password has returned false
C4_Witness ==
    /\ ret.op = "valid_login"
    /\ RowsOf(users, ret.email) # {}
    /\ ret.rbool = FALSE
    /\ \E u \in RowsOf(users, ret.email) :
            ret.password = users[u].hashed_password[2] \o "x"

----------------------------------------------------------------------------
(* Claims: failure paths *)

\* the reset tokens currently outstanding: issued to a user and not consumed
Outstanding(us) == {us[u].reset_token : u \in 1..Len(us)} \ {None}

\* C5: for every reset_token argument that is not an outstanding reset token
\* (never issued, already consumed, or null), update_password fails with
\* InvalidToken (ValueError) and leaves every record unchanged.
C5_InvalidTokenRejected ==
    [][(Calls("update_password") /\ ret'.token \notin Outstanding(users))
        => (ret'.exc = "ValueError" /\ users' = users)]_vars

\* C6: destroy_session(user_id) never surfaces an error, whatever the
\* user_id: a failure of the store update, NotFound for an unknown id
\* included, is swallowed and the store is unchanged.
C6_DestroyNeverRaises ==
    ret.op = "destroy_session" => ret.exc = None

\* C7: create_session(e) for an email e of no record returns absent without
\* raising and writes nothing: every record is as before the call.
C7_CreateSessionMissing ==
    [][(Calls("create_session") /\ RowsOf(users, ret'.email) = {})
        => /\ ret'.rtoken = None
           /\ ret'.exc = None
           /\ ret'.writes = 0
           /\ users' = users
           /\ uuids' = uuids]_vars

\* create_session of an unregistered email has returned, other records existing
C7_Witness ==
    /\ ret.op = "create_session"
    /\ RowsOf(users, ret.email) = {}
    /\ ret.rtoken = None
    /\ Len(users) > 0

\* C8: issue_reset_token(e) for an email e of no record fails with
\* UserNotFound (ValueError), returns no token and leaves every record
\* unchanged.
C8_ResetTokenMissing ==
    [][(Calls("get_reset_password_token") /\ RowsOf(users, ret'.email) = {})
        => /\ ret'.exc = "ValueError"
           /\ ret'.rtoken = None
           /\ ret'.writes = 0
           /\ users' = users
           /\ uuids' = uuids]_vars

\* get_reset_password_token of an unregistered email has raised, other records
\* existing
C8_Witness ==
    /\ ret.op = "get_reset_password_token"
    /\ RowsOf(users, ret.email) = {}
    /\ ret.exc = "ValueError"
    /\ Len(users) > 0

\* what resolve_session returns for a session_id that reaches the store: the
\* record whose session_id equals it, or absent when there is none
ResolvedByLookup ==
    \/ ret.ruser = 0 /\ Matching(users, "session_id", ret.token) = {}
    \/ ret.ruser \in 1..Len(users) /\ users[ret.ruser].session_id = ret.token

\* C9 as claimed: resolve_session returns absent with no store lookup when
\* session_id is the empty string or null, and for any other session_id
\* returns the record whose session_id equals it, or absent.
C9_EmptyOrNullSkipsStore ==
    ret.op = "get_user_from_session_id"
    => IF ret.token \in {None, ""}
       THEN ret.ruser = 0 /\ ret.reads = 0
       ELSE ResolvedByLookup

\* C9 amended: resolve_session returns absent with no store lookup when
\* session_id is null; for any other session_id, the empty string included,
\* it makes one store lookup and returns the record whose session_id equals
\* it, or absent (always absent for the empty string).
C9_NullSkipsStore ==
    ret.op = "get_user_from_session_id"
    => /\ ret.exc = None
       /\ IF ret.token = None
          THEN ret.ruser = 0 /\ ret.reads = 0
          ELSE ret.reads = 1 /\ ResolvedByLookup
       /\ (ret.token = "" => ret.ruser = 0)

\* the empty session_id was looked up in a store holding a user without session
C9_Witness ==
    /\ ret.op = "get_user_from_session_id"
    /\ ret.token = ""
    /\ ret.reads = 1
    /\ \E u \in 1..Len(users) : users[u].session_id = None

----------------------------------------------------------------------------
(* Claims: the redactor *)

\* the position of the first ch in w at or after i, Len(w) + 1 when there is none
RECURSIVE Find(_, _, _)
Find(w, ch, i) ==
    IF i > Len(w) \/ w[i] = ch THEN i ELSE Find(w, ch, i + 1)

\* the tokens of msg, split at the separator character
RECURSIVE Split(_, _)
Split(msg, ch) ==
    LET j == Find(msg, ch, 1)
    IN  IF j > Len(msg) THEN <<msg>>
        ELSE <<SubSeq(msg, 1, j - 1)>> \o Split(SubSeq(msg, j + 1, Len(msg)), ch)

\* the key of a key=value token
KeyOf(tok) == SubSeq(tok, 1, Find(tok, "=", 1) - 1)

IsField(key, flds) == \E k \in 1..Len(flds) : flds[k] = key

\* the token with its value masked when its key is a member of flds
Masked(tok, flds, mask) ==
    IF IsField(KeyOf(tok), flds) THEN Token(KeyOf(tok), mask) ELSE tok

\* the message in which every token whose key is a member of flds has its
\* value replaced by mask
Redacted(flds, mask, msg, sep) ==
    LET toks == Split(msg, sep[1])
    IN  Join([k \in 1..Len(toks) |-> Masked(toks[k], flds, mask)], sep)

\* C10: for every message that is a separator-delimited sequence of key=value
\* tokens, redact(fields, mask, message, separator) is the message in which
\* every token whose key is a member of fields has its value replaced by mask,
\* key and '=' kept; fields {password, email}, mask ***, separator ; map
\* "name=Bob;password=hunter2;email=a@b.com;city=NYC" to
\* "name=Bob;password=***;email=***;city=NYC".
C10_RedactMasksFieldTokens ==
    output # NotCalled
    => /\ output = Redacted(fields, redaction, message, separator)
       /\ (/\ message = Join(ExampleTokens, <<";">>) /\ fields = ExampleFields
           /\ redaction = <<"*", "*", "*">>
            => output = ExampleOutput)

\* the cases of C10 the code meets: no key of the message merely ends with a
\* field name, and fields is not empty
C10_OnExactKeys ==
    (/\ output # NotCalled
     /\ fields # <<>>
     /\ \A k \in 1..Len(Split(message, separator[1])) :
            LET key == KeyOf(Split(message, separator[1])[k])
            IN  \A f \in 1..Len(fields) :
                    \A i \in 2..Len(key) : SubSeq(key, i, Len(key)) # fields[f])
    => output = Redacted(fields, redaction, message, separator)

\* the tokens of the message and of the returned string
MessageTokens == Split(message, separator[1])
OutputTokens == Split(output, separator[1])

\* C11: key matching is case-sensitive and whole-key: a token whose key is
\* not exactly a member of fields (a key that ends with or contains a field
\* name, or differs from one in case) passes through redact unchanged, and
\* the order and count of such tokens is preserved. Stated for a non-empty
\* fields (with no field at all the pattern masks every value).
C11_WholeKeyMatch ==
    output # NotCalled /\ fields # <<>>
    => /\ Len(OutputTokens) = Len(MessageTokens)
       /\ \A k \in 1..Len(MessageTokens) :
            ~IsField(KeyOf(MessageTokens[k]), fields)
            => OutputTokens[k] = MessageTokens[k]

\* the part of C11 the code meets: a token whose key differs from every
\* field in case only, and ends with no field name, passes through unchanged
C11_CaseSensitive ==
    output # NotCalled /\ fields # <<>>
    => /\ Len(OutputTokens) = Len(MessageTokens)
       /\ \A k \in 1..Len(MessageTokens) :
            KeyOf(MessageTokens[k]) = <<"I", "D">>
            => OutputTokens[k] = MessageTokens[k]

----------------------------------------------------------------------------
(* Claims: idempotence, field lifetimes and frames *)

\* C12: destroy_session is idempotent on an existing user: destroy_session(u)
\* does not raise and leaves u's session_id null, and a second
\* destroy_session(u) right after it does not raise and leaves the store as
\* the first call left it.
C12_DestroyIdempotent ==
    /\ [](ret.op = "destroy_session" /\ ret.user_id \in 1..Len(users)
            => ret.exc = None /\ users[ret.user_id].session_id = None)
    /\ [][(/\ ret.op = "destroy_session" /\ ret.writes = 1
           /\ Calls("destroy_session") /\ ret'.user_id = ret.user_id)
            => /\ ret'.exc = None
               /\ users' = users
               /\ users'[ret.user_id].session_id = None]_vars

\* destroy_session of an existing user has been called twice in a row
C12_Witness ==
    /\ ret.op = "destroy_session"
    /\ ret.chain = "destroyed"
    /\ ret.user_id \in 1..Len(users)
    /\ ret.exc = None

\* the uuids generated so far
Generated == {UuidOf(n) : n \in 1..uuids}

\* the rows that exist before and after the step
Kept == 1..Len(users)

\* C13: a record's session_id is non-null only if a create_session for that
\* user's email succeeded and no destroy_session for that user's id has
\* completed since, and a newly registered record has a null session_id: a
\* session_id becomes a (new) non-null value only in a create_session step
\* for the record's email that returns that value, it is null after a
\* destroy_session of the record returns, and it is null in a new record.
C13_SessionIdLifetime ==
    /\ [](\A u \in 1..Len(users) :
            users[u].session_id # None => users[u].session_id \in Generated)
    /\ [][/\ \A u \in 1..Len(users') :
                IF u \in Kept
                THEN (users'[u].session_id # None
                        /\ users'[u].session_id # users[u].session_id)
                     => /\ Calls("create_session")
                        /\ ret'.exc = None
                        /\ ret'.rtoken = users'[u].session_id
                        /\ ret'.email = users[u].email
                ELSE Calls("register_user") /\ users'[u].session_id = None
          /\ (Calls("destroy_session") /\ ret'.exc = None
                => /\ ret'.user_id \in Kept
                   /\ users'[ret'.user_id].session_id = None)]_vars

\* a record was registered, with no session, while another holds a session
C13_Witness ==
    /\ ret.op = "register_user"
    /\ ret.exc = None
    /\ users[ret.row].session_id = None
    /\ \E u \in 1..Len(users) : users[u].session_id \in Generated

\* C14: a record's reset_token is non-null only if an issue_reset_token for
\* that user's email succeeded and no successful update_password has consumed
\* that token since, and a newly registered record has a null reset_token: a
\* reset_token becomes a (new) non-null value only in a
\* get_reset_password_token step for the record's email that returns that
\* value, no record holds a token after an update_password presenting it
\* succeeds, and it is null in a new record.
C14_ResetTokenLifetime ==
    /\ [](\A u \in 1..Len(users) :
            users[u].reset_token # None => users[u].reset_token \in Generated)
    /\ [][/\ \A u \in 1..Len(users') :
                IF u \in Kept
                THEN (users'[u].reset_token # None
                        /\ users'[u].reset_token # users[u].reset_token)
                     => /\ Calls("get_reset_password_token")
                        /\ ret'.exc = None
                        /\ ret'.rtoken = users'[u].reset_token
                        /\ ret'.email = users[u].email
                ELSE Calls("register_user") /\ users'[u].reset_token = None
          /\ (Calls("update_password") /\ ret'.exc = None /\ ret'.token # None
                => Matching(users', "reset_token", ret'.token) = {})]_vars

\* an issued token was consumed while another record's token is outstanding
C14_Witness ==
    /\ ret.op = "update_password"
    /\ ret.exc = None
    /\ ret.token \in Generated
    /\ users[ret.row].reset_token = None
    /\ Outstanding(users) # {}

\* C15: a record's hashed_password is set at registration and changes only in
\* an update_password step that presents the reset token currently issued to
\* that same user; no other call, and no failing update_password, changes any
\* record's hashed_password.
C15_PasswordChangesOnlyByReset ==
    [][\A u \in Kept :
        users'[u].hashed_password # users[u].hashed_password
        => /\ Calls("update_password")
           /\ ret'.exc = None
           /\ ret'.token \in Outstanding(users)
           /\ ret'.token = users[u].reset_token]_vars

\* the columns of row u named in cols are as before the step
Same(u, cols) == \A c \in cols : users'[u][c] = users[u][c]

\* the rows that the step changed
Changed == {u \in Kept : users'[u] # users[u]}

\* C16: each operation changes only its own fields of only the targeted
\* record: create_session and destroy_session leave reset_token,
\* hashed_password and email unchanged; issue_reset_token leaves session_id and
\* hashed_password unchanged; update_password leaves session_id unchanged;
\* validate_login and resolve_session change nothing; and no operation changes
\* a record other than the one it targets (the record of the email, id or
\* reset token it is called with; register only adds a record).
C16_Frames ==
    [][/\ Len(users') >= Len(users)
       /\ Cardinality(Changed) <= 1
       /\ (Len(users') > Len(users) => Calls("register_user") /\ Changed = {})
       /\ \A u \in Kept :
            /\ Same(u, {"id", "email"})
            /\ (Calls("create_session") \/ Calls("destroy_session")
                    => Same(u, {"reset_token", "hashed_password"}))
            /\ (Calls("get_reset_password_token")
                    => Same(u, {"session_id", "hashed_password"}))
            /\ (Calls("update_password") => Same(u, {"session_id"}))
            /\ (Calls("valid_login") \/ Calls("get_user_from_session_id")
                    \/ Calls("register_user")
                    => users'[u] = users[u])
            /\ (u \in Changed
                    => \/ Calls("create_session") /\ users[u].email = ret'.email
                       \/ Calls("get_reset_password_token")
                            /\ users[u].email = ret'.email
                       \/ Calls("destroy_session") /\ u = ret'.user_id
                       \/ Calls("update_password")
                            /\ users[u].reset_token = ret'.token)]_vars

\* a password was reset with an issued token and the user's session survived
C16_Witness ==
    /\ ret.op = "update_password"
    /\ ret.exc = None
    /\ ret.token \in Generated
    /\ users[ret.row].session_id \in Generated
    /\ Len(users) > 1

\* C20: a user has at most one live session token: when create_session(e)
\* returns a token, the token that e's record held before no longer resolves
\* and the new one resolves to e's record; no two records hold the same
\* non-null session_id, and every session_id resolves to one answer.
C20_OneLiveSession ==
    /\ [](/\ \A u, v \in 1..Len(users) :
                (u # v /\ users[u].session_id = users[v].session_id)
                => users[u].session_id = None
          /\ \A t \in TokenArgs :
                Cardinality(get_user_from_session_id_returns(users, t)) = 1)
    /\ [][(Calls("create_session") /\ ret'.rtoken # None)
            => /\ \A u \in RowsOf(users, ret'.email) :
                    users[u].session_id # None
                    => get_user_from_session_id_returns(users', users[u].session_id)
                        = {0}
               /\ Cardinality(RowsOf(users', ret'.email)) = 1
               /\ get_user_from_session_id_returns(users', ret'.rtoken)
                    = RowsOf(users', ret'.email)]_vars

\* a second create_session of the same email has returned a token while
\* another user holds a session too
C20_Witness ==
    /\ ret.op = "create_session"
    /\ ret.chain = "recreated"
    /\ ret.rtoken \in Generated
    /\ \E u \in 1..Len(users) :
            users[u].email # ret.email /\ users[u].session_id \in Generated

----------------------------------------------------------------------------
(* Claims: concurrent callers *)

\* thread t has finished a call of op
Done(t, op) == threads[t].pc = "done" /\ threads[t].op = op

\* C17: when two create_session calls for the same registered email (an
\* email with one record) have both completed, however their reads and writes
\* interleaved, the record's session_id is exactly one of the two returned
\* tokens, that of the later write; that token resolves to the user and the
\* other returned token resolves to absent.
C17_ConcurrentCreateSession ==
    \A t, o \in Threads :
        (/\ t # o
         /\ Done(t, "create_session") /\ Done(o, "create_session")
         /\ threads[t].email = threads[o].email
         /\ threads[t].rtoken # None /\ threads[o].rtoken # None
         /\ Cardinality(RowsOf(users, threads[t].email)) = 1
         /\ writer = t)
        => /\ threads[t].rtoken # threads[o].rtoken
           /\ \A u \in RowsOf(users, threads[t].email) :
                users[u].session_id = threads[t].rtoken
           /\ get_user_from_session_id_returns(users, threads[t].rtoken)
                = RowsOf(users, threads[t].email)
           /\ get_user_from_session_id_returns(users, threads[o].rtoken) = {0}

\* two create_session calls of the one registered email stood between read and
\* write at the same time, and both have returned
C17_Witness ==
    /\ \A t \in Threads :
        /\ Done(t, "create_session")
        /\ threads[t].rtoken # None
        /\ threads[t].overlap
    /\ Cardinality(RowsOf(users, threads[1].email)) = 1
    /\ writer \in Threads

\* C18: a reset token is single-use under any interleaving: of the
\* update_password calls that present a token returned by issue_reset_token,
\* at most one succeeds.
C18_ResetTokenUsedOnce ==
    \A t, o \in Threads :
        (/\ t # o
         /\ Done(t, "update_password") /\ Done(o, "update_password")
         /\ threads[t].token = threads[o].token
         /\ threads[t].token \in HandedOut)
        => ~(threads[t].exc = None /\ threads[o].exc = None)

\* C19: registration keeps emails unique: for any interleaving of register
\* calls the store never holds two records with the same email, and at most
\* one register call per email succeeds.
C19_EmailsUnique ==
    /\ \A u, v \in 1..Len(users) : users[u].email = users[v].email => u = v
    /\ \A t, o \in Threads :
        (/\ t # o
         /\ Done(t, "register_user") /\ Done(o, "register_user")
         /\ threads[t].email = threads[o].email)
        => ~(threads[t].exc = None /\ threads[o].exc = None)

====
